---- MODULE Spec2Model ----
(***************************************************************************)
(* Model of the cloudops-bot conversation lifecycle: the Slack signature   *)
(* validator (pkg/handler), the in-memory Conversation (pkg/models), the   *)
(* DynamoDB ConversationRepository (pkg/dynamodb) and the Lambda Handler   *)
(* with its dispatcher handleAppMention (cmd/lambda).                      *)
(*                                                                         *)
(* Strings that the code inspects character by character (the timestamp    *)
(* header, the body, the signature, the signing key) are sequences of      *)
(* one-character strings.  Wall-clock time is counted in ticks,            *)
(* TicksPerSecond ticks to the second, so that formatting a time with      *)
(* second resolution (time.RFC3339) differs from keeping it whole.         *)
(***************************************************************************)
EXTENDS Integers, Sequences, FiniteSets, TLC

VARIABLES
    call,      \* one invocation of handler.ValidateSlackRequest: inputs, result
    now,       \* wall clock, in ticks
    obj,       \* an in-memory models.Conversation driven through its methods
    store,     \* the conversations table: conversation_id -> item or NoItem
    req,       \* the Lambda invocations: request, position, local conversation
    nextID,    \* number of conversation ids generated so far
    saves,     \* successful Save calls of the dispatcher
    posts,     \* messages delivered to Slack channels
    execs,     \* Step Functions executions started
    calls,     \* number of repository calls made by other clients so far
    hist,      \* the history table: conversation_id -> message_index -> item
    appended,  \* per conversation, the SaveMessage calls that returned nil, in order
    faults,    \* whether a store call of SaveMessage has failed so far
    worker,    \* the agent process of each conversation: position, loaded record
    runs,      \* the Step Functions execution of each conversation: state, start
    inbox,     \* per conversation, the texts users sent while its worker ran
    made,      \* the arguments of the NewConversation calls of repository callers
    lookup,    \* the result of the last read of the repository
    channels,  \* the calls of the ChannelCreator: Slack calls made, results
    config     \* a process's environment and what config.Load made of it

vars == <<call, now, obj, store, req, nextID, saves, posts, execs, calls,
          hist, appended, faults, worker, runs, inbox, made, lookup, channels,
          config>>

----------------------------------------------------------------------------
(* Bounds of the model *)

\* Lambda invocations in one behaviour.
MaxRequests == 1
\* Last tick of the wall clock.
MaxTime == 1
\* Repository calls made by clients other than the dispatcher.
MaxCalls == 2

\* Inactivity thresholds that go by on the wall clock while a worker runs.
MaxThresholds == 2
\* Hours that go by on the wall clock of the state machine.
MaxHours == 2
\* Texts a user sends to one worker.
MaxInputs == 1
\* Mentions delivered one after another to the Lambda.
MaxMentions == 2
\* Conversations that callers of the repository create.
MaxStored == 2
\* Calls of the ChannelCreator.
MaxChannelCalls == 2
\* SaveMessage calls that return nil, per conversation.
MaxMessages == 4

\* Clock resolution: ticks per second.
TicksPerSecond == 2

----------------------------------------------------------------------------
(* Strings as sequences of characters *)

Digits == {"0", "1", "2", "3", "4", "5", "6", "7", "8", "9"}

DigitVal ==
    "0" :> 0 @@ "1" :> 1 @@ "2" :> 2 @@ "3" :> 3 @@ "4" :> 4 @@
    "5" :> 5 @@ "6" :> 6 @@ "7" :> 7 @@ "8" :> 8 @@ "9" :> 9

\* strconv.ParseUint(s, 10, 64) on the digits: a syntax error on the empty
\* string and on any character that is no decimal digit.  The inputs of the
\* model have few enough digits that the range error cannot occur.
RECURSIVE ParseUintAcc(_, _)
ParseUintAcc(s, acc) ==
    IF s = <<>> THEN [ok |-> TRUE, val |-> acc]
    ELSE IF Head(s) \notin Digits THEN [ok |-> FALSE, val |-> 0]
    ELSE ParseUintAcc(Tail(s), acc * 10 + DigitVal[Head(s)])

ParseUint(s) ==
    IF s = <<>> THEN [ok |-> FALSE, val |-> 0] ELSE ParseUintAcc(s, 0)

\* strconv.ParseInt(s, 10, 64): an optional sign, then ParseUint.
ParseInt(s) ==
    IF s = <<>> THEN [ok |-> FALSE, val |-> 0]
    ELSE IF Head(s) = "+" THEN ParseUint(Tail(s))
    ELSE IF Head(s) = "-"
         THEN LET un == ParseUint(Tail(s))
              IN  [ok |-> un.ok, val |-> 0 - un.val]
    ELSE ParseUint(s)

----------------------------------------------------------------------------
(* handler.ValidateSlackRequest *)

\* Largest age of a request, in seconds.
MaxAge == 300

\* fmt.Sprintf("v0:%s:%s", timestamp, string(body))
BaseString(timestamp, body) == <<"v", "0", ":">> \o timestamp \o <<":">> \o body

\* The zero byte.
Nul == "^@"

\* Bytes in a block of SHA-256.
BlockSize == 64

\* hmac.New(sha256.New, key): the key is copied into a block of zero bytes.
\* (A key longer than a block is hashed first; the keys of the model are
\* shorter.)
PadKey(signingKey) ==
    signingKey \o [i \in 1..(BlockSize - Len(signingKey)) |-> Nul]

\* Mutant: the digest does not depend on the key.
HmacHex_Unkeyed(signingKey, msg) == <<"[">> \o <<"|">> \o msg \o <<"]">>

\* hex(HMAC-SHA256(signingKey, msg)).  The digest is idealised: a function
\* of the padded key and the message without collisions, written as the
\* bracketed pair of the two.  "[", "|" and "]" occur in no key, timestamp
\* or body.
HmacHex(signingKey, msg) == <<"[">> \o PadKey(signingKey) \o <<"|">> \o msg \o <<"]">>

ExpectedSig(body, timestamp, signingKey) ==
    <<"v", "0", "=">> \o HmacHex(signingKey, BaseString(timestamp, body))

\* The timestamp check alone: parse error, or older than MaxAge seconds.
TimestampRejected(timestamp, unixNow) ==
    LET ts == ParseInt(timestamp)
    IN  IF ~ts.ok THEN TRUE ELSE unixNow - ts.val > MaxAge

\* Mutants of ValidateSlackRequest: only the length of the signature is
\* compared; a timestamp that does not parse is let through to the
\* comparison of the signature.
ValidateSlackRequest_LengthOnly(body, timestamp, signature, signingKey, unixNow) ==
    IF TimestampRejected(timestamp, unixNow) THEN FALSE
    ELSE Len(ExpectedSig(body, timestamp, signingKey)) = Len(signature)

ValidateSlackRequest_ParseErrorIgnored(body, timestamp, signature, signingKey, unixNow) ==
    LET ts == ParseInt(timestamp)
    IN  IF ts.ok /\ unixNow - ts.val > MaxAge THEN FALSE
        ELSE ExpectedSig(body, timestamp, signingKey) = signature

ValidateSlackRequest(body, timestamp, signature, signingKey, unixNow) ==
    IF TimestampRejected(timestamp, unixNow) THEN FALSE
    ELSE ExpectedSig(body, timestamp, signingKey) = signature

\* strconv.FormatInt(n, 10), as the tests use it to build timestamps.
RECURSIVE FormatUint(_)
FormatUint(n) ==
    LET d == CHOOSE c \in Digits : DigitVal[c] = n % 10
    IN  IF n < 10 THEN <<d>> ELSE FormatUint(n \div 10) \o <<d>>

FormatInt(n) == IF n < 0 THEN <<"-">> \o FormatUint(0 - n) ELSE FormatUint(n)

\* time.Now().Unix() at the first tick of a behaviour.
UnixStart == 1000

\* time.Now().Unix() at tick t.
Unix(t) == UnixStart + t \div TicksPerSecond

\* Request bodies: an app_mention event_callback, a url_verification, an
\* event_callback of another type, an event of another type, bytes that are
\* no JSON, and the empty body.
BodyMention == <<"m">>
\* A url_verification body is the letter u, for all of the JSON text but the
\* challenge, and then the challenge as that text has it, a JSON string
\* literal: here "c", and the one character " written \".
BodyVerify  == <<"u", "\"", "c", "\"">>
BodyVerifyQuote == <<"u", "\"", "\\", "\"", "\"">>
BodyOtherEvent == <<"e">>
BodyOtherType == <<"o">>
BodyNotJSON == <<"x">>
BodyEmpty == <<>>

\* The signing key of the deployment and another key.
SigningKey == <<"k">>
WrongKey == <<"w">>
\* The signing key with a zero byte after it.
ZeroEndedKey == SigningKey \o <<Nul>>

\* Inputs of the validator's calls.
CallBodies == {BodyMention, BodyVerify, BodyEmpty}
CallKeys == {SigningKey, WrongKey, ZeroEndedKey}
CallOffsets == {0 - MaxAge - 1, 0 - MaxAge, 0 - 1, 0, 1, MaxAge, MaxAge + 1}
CallTimestamps ==
    {FormatInt(UnixStart + d) : d \in CallOffsets}
    \cup {<<"+">> \o FormatInt(UnixStart), FormatInt(0 - UnixStart)}
    \cup {<<>>, <<"+">>, <<"-">>, <<"n", "a", "n">>, FormatInt(UnixStart) \o <<"s">>,
          <<" ">> \o FormatInt(UnixStart)}

\* Every one-character change of a signature, and the signature cut short.
Mutations(sig) ==
    {[sig EXCEPT ![i] = IF sig[i] = "0" THEN "1" ELSE "0"] : i \in 1..Len(sig)}
    \cup {SubSeq(sig, 1, Len(sig) - 1)}

CallSignatures(body, timestamp, signingKey) ==
    {ExpectedSig(b, t, k) : b \in CallBodies, t \in CallTimestamps, k \in CallKeys}
    \cup Mutations(ExpectedSig(body, timestamp, signingKey))
    \cup {<<>>, <<"v", "0", "=">>}

NoCall ==
    [body |-> <<>>, timestamp |-> <<>>, signature |-> <<>>, signingKey |-> <<>>,
     unixNow |-> UnixStart, done |-> FALSE, result |-> FALSE]

\* A caller hands ValidateSlackRequest its arguments and gets the result.
Validate ==
    /\ ~call.done
    /\ call' = [call EXCEPT !.done = TRUE,
                            !.result = ValidateSlackRequest(call.body, call.timestamp,
                                           call.signature, call.signingKey, call.unixNow)]
    /\ UNCHANGED <<now, obj, store, req, nextID, saves, posts, execs, calls, hist, appended, faults, worker,
                   runs, inbox, made, lookup, channels, config>>

----------------------------------------------------------------------------
(* models.Conversation *)

StatusPending   == "pending"
StatusActive    == "active"
StatusCompleted == "completed"
StatusFailed    == "failed"
StatusTimeout   == "timeout"

Statuses == {StatusPending, StatusActive, StatusCompleted, StatusFailed, StatusTimeout}
Terminal == {StatusCompleted, StatusFailed, StatusTimeout}

Times == 0..MaxTime

\* Days a record is kept.
TTLDays == 7

\* A *time.Time is <<>> when nil and <<t>> when it points to t.  The zero
\* time.Time, which a field holds when nothing set it, is ZeroTime, before
\* every tick of the clock.
ZeroTime == 0 - 1

\* The zero value of the struct.  An ARN is a sequence, empty for "".
ZeroConversation ==
    [ConversationID |-> 0, ChannelID |-> "", UserID |-> "", Status |-> "",
     InitialCommand |-> "", CreatedAt |-> ZeroTime, LastHeartbeat |-> ZeroTime,
     CompletedAt |-> <<>>, TaskArn |-> "", ExecutionArn |-> <<>>, Error |-> "",
     TTL |-> 0]

\* Mutant: a conversation is made active, and with no command.
NewConversation_Active(id, channelID, userID, initialCommand, t) ==
    [ZeroConversation EXCEPT
        !.ConversationID = id, !.ChannelID = channelID, !.UserID = userID,
        !.Status = StatusActive,
        !.CreatedAt = t, !.LastHeartbeat = t,
        !.TTL = Unix(t) + TTLDays * 86400]

\* NewConversation at tick t; id is what generateConversationID returns.
NewConversation(id, channelID, userID, initialCommand, t) ==
    [ZeroConversation EXCEPT
        !.ConversationID = id, !.ChannelID = channelID, !.UserID = userID,
        !.Status = StatusPending, !.InitialCommand = initialCommand,
        !.CreatedAt = t, !.LastHeartbeat = t,
        !.TTL = Unix(t) + TTLDays * 86400]

\* (c *Conversation) UpdateStatus(status) at tick t.
ConversationUpdateStatus(c, status, t) ==
    [c EXCEPT !.Status = status,
              !.CompletedAt = IF status \in Terminal THEN <<t>> ELSE @]

\* (c *Conversation) UpdateHeartbeat() at tick t.
ConversationUpdateHeartbeat(c, t) == [c EXCEPT !.LastHeartbeat = t]

----------------------------------------------------------------------------
(* dynamodb.ConversationRepository over the conversations table *)

\* Conversation ids: generateConversationID returns the ids 1, 2, ... in turn
\* (a ULID is taken to be fresh); 0 is the empty id.
ConvIDs == 1..MaxRequests

\* Mutant: the identifier does not depend on what was generated before.
generateConversationID_Fixed(n) == 1

\* generateConversationID() after n ids were generated.
generateConversationID(n) == n + 1

NoItem == [none |-> TRUE]

\* time.Time.Format(time.RFC3339): whole seconds.
FormatRFC3339(t) == (t \div TicksPerSecond) * TicksPerSecond

\* attributevalue.MarshalMap(conv): every field under its dynamodbav name,
\* the omitempty ones left out when empty; a time.Time is written with
\* its fraction of a second (time.RFC3339Nano).
MarshalMap(conv) ==
    LET always ==
            [conversation_id |-> conv.ConversationID, channel_id |-> conv.ChannelID,
             user_id |-> conv.UserID, status |-> conv.Status,
             initial_command |-> conv.InitialCommand, created_at |-> conv.CreatedAt,
             last_heartbeat |-> conv.LastHeartbeat,
             execution_arn |-> conv.ExecutionArn, ttl |-> conv.TTL]
        completed == IF conv.CompletedAt = <<>> THEN <<>>
                     ELSE [completed_at |-> conv.CompletedAt[1]]
        task == IF conv.TaskArn = "" THEN <<>> ELSE [task_arn |-> conv.TaskArn]
        error == IF conv.Error = "" THEN <<>> ELSE [error |-> conv.Error]
    IN  always @@ completed @@ task @@ error

Attr(item, name, default) == IF name \in DOMAIN item THEN item[name] ELSE default

\* attributevalue.UnmarshalMap(item, &conv): a missing attribute leaves the
\* field at its zero value.
UnmarshalMap(item) ==
    [ConversationID |-> Attr(item, "conversation_id", 0),
     ChannelID      |-> Attr(item, "channel_id", ""),
     UserID         |-> Attr(item, "user_id", ""),
     Status         |-> Attr(item, "status", ""),
     InitialCommand |-> Attr(item, "initial_command", ""),
     CreatedAt      |-> Attr(item, "created_at", ZeroTime),
     LastHeartbeat  |-> Attr(item, "last_heartbeat", ZeroTime),
     CompletedAt    |-> IF "completed_at" \in DOMAIN item
                        THEN <<item["completed_at"]>> ELSE <<>>,
     TaskArn        |-> Attr(item, "task_arn", ""),
     ExecutionArn   |-> Attr(item, "execution_arn", <<>>),
     Error          |-> Attr(item, "error", ""),
     TTL            |-> Attr(item, "ttl", 0)]

\* DynamoDB PutItem: the item replaces whatever the key held.
PutItem(table, item) == [table EXCEPT ![item["conversation_id"]] = item]

\* Mutant: the update writes the item anew with the key and the attributes
\* in set.
UpdateItem_Replace(table, id, set) ==
    [table EXCEPT ![id] = set @@ [conversation_id |-> id]]

\* DynamoDB UpdateItem with a SET expression: the attributes in set are
\* written over the item of the key, which is created when the key held none.
UpdateItem(table, id, set) ==
    LET old == IF table[id] = NoItem THEN [conversation_id |-> id] ELSE table[id]
    IN  [table EXCEPT ![id] = set @@ old]

\* (r *ConversationRepository) Save(ctx, conv), when PutItem succeeds.
Save(table, conv) == PutItem(table, MarshalMap(conv))

\* (r *ConversationRepository) UpdateStatus(ctx, id, status) at tick t, when
\* UpdateItem succeeds.
RepositoryUpdateStatus(table, id, status, t) ==
    IF status \in Terminal
    THEN UpdateItem(table, id, [status |-> status, completed_at |-> FormatRFC3339(t)])
    ELSE UpdateItem(table, id, [status |-> status])

\* Mutant: a heartbeat also marks the conversation active.
RepositoryUpdateHeartbeat_Activating(table, id, timestamp) ==
    UpdateItem(table, id, [last_heartbeat |-> FormatRFC3339(timestamp),
                           status |-> StatusActive])

\* (r *ConversationRepository) UpdateHeartbeat(ctx, id, timestamp), when
\* UpdateItem succeeds.
RepositoryUpdateHeartbeat(table, id, timestamp) ==
    UpdateItem(table, id, [last_heartbeat |-> FormatRFC3339(timestamp)])

\* (r *ConversationRepository) GetByID(ctx, id).
GetByID(table, id) ==
    IF table[id] = NoItem THEN [ok |-> FALSE, conv |-> ZeroConversation]
    ELSE [ok |-> TRUE, conv |-> UnmarshalMap(table[id])]

\* The name of the index on channel_id in the table a deployment has: the
\* one the table set-up script creates, or the one the deployment notes name.
DeployedIndexNames == {"channel-index", "ChannelIndex"}

\* The items of the table that the index on channel_id holds under channelID.
ChannelItems(table, channelID) ==
    {table[id] : id \in {i \in DOMAIN table :
                            table[i] # NoItem /\ Attr(table[i], "channel_id", "") = channelID}}

\* (r *ConversationRepository) GetByChannelID(ctx, channelID): every result
\* the call can have on a table whose index on channel_id is indexName.  The
\* query names the index ChannelIndex and fails on a table without it.  The
\* key of the index is channel_id alone, so DynamoDB returns the items of a
\* channel in no defined order, whatever ScanIndexForward says, and Limit 1
\* leaves whichever comes first.
GetByChannelID(table, channelID, indexName) ==
    IF indexName # "ChannelIndex" \/ ChannelItems(table, channelID) = {}
    THEN {[ok |-> FALSE, conv |-> ZeroConversation]}
    ELSE {[ok |-> TRUE, conv |-> UnmarshalMap(item)] :
             item \in ChannelItems(table, channelID)}

\* MessageRole constants.
RoleUser      == "user"
RoleAssistant == "assistant"

\* The indexes of a set of items in ascending order (ScanIndexForward: true).
RECURSIVE Ascending(_)
Ascending(S) ==
    IF S = {} THEN <<>>
    ELSE LET least == CHOOSE i \in S : \A j \in S : i <= j
         IN  <<least>> \o Ascending(S \ {least})

\* The items one Query response carries.  DynamoDB ends a response at 1 MB of
\* items and reports where to go on in LastEvaluatedKey, which
\* GetMessageHistory does not read; message sizes are such that this many
\* items fill a response.
QueryPageItems == 2

\* client.Query on the history table, KeyConditionExpression
\* conversation_id = :convId, ScanIndexForward true: the items of the
\* conversation by ascending message_index, as far as one response goes.
QueryHistory(table, id) ==
    LET indexes == Ascending(DOMAIN table[id])
        n == IF Len(indexes) < QueryPageItems THEN Len(indexes) ELSE QueryPageItems
    IN  [i \in 1..n |-> table[id][indexes[i]]]

\* (r *ConversationRepository) GetMessageHistory(ctx, id), when Query succeeds.
GetMessageHistory(table, id) ==
    LET items == QueryHistory(table, id)
    IN  [i \in 1..Len(items) |-> [Role |-> items[i].role, Content |-> items[i].content]]

\* models.ConversationHistoryItem as SaveMessage builds it at tick t.
HistoryItem(id, messageIndex, role, content, t) ==
    [conversation_id |-> id, message_index |-> messageIndex, role |-> role,
     content |-> content, created_at |-> t, ttl |-> Unix(t) + TTLDays * 86400]

\* DynamoDB PutItem on the history table, whose key is conversation_id and
\* message_index: the item replaces whatever the key held.
PutHistoryItem(table, item) ==
    [table EXCEPT ![item.conversation_id] = (item.message_index :> item) @@ @]

\* SaveMessage up to its PutItem: the history is read, an error of the read
\* dropped (messages is then nil), and the index is the number of messages.
MessageIndex(table, id, readOK) ==
    IF readOK THEN Len(GetMessageHistory(table, id)) ELSE 0

MessageRoles == {RoleUser, RoleAssistant}
MessageContents == {"a", "b"}

\* (r *ConversationRepository) SaveMessage(ctx, id, role, content), called
\* by the one writer of the conversation.  readOK: the Query of
\* GetMessageHistory succeeds; putOK: PutItem succeeds and nil is returned.
SaveMessage(id, role, content) ==
    /\ Len(appended[id]) < MaxMessages
    /\ \E readOK \in BOOLEAN, putOK \in BOOLEAN :
         LET item == HistoryItem(id, MessageIndex(hist, id, readOK), role, content, now)
         IN  /\ hist' = IF putOK THEN PutHistoryItem(hist, item) ELSE hist
             /\ appended' = IF putOK
                            THEN [appended EXCEPT ![id] =
                                     Append(@, [Role |-> role, Content |-> content])]
                            ELSE appended
             /\ faults' = (faults \/ ~readOK \/ ~putOK)
    /\ UNCHANGED <<call, now, obj, store, req, nextID, saves, posts, execs, calls, worker,
                   runs, inbox, made, lookup, channels, config>>

----------------------------------------------------------------------------
(* cmd/lambda: Handler and handleAppMention *)

Reqs == 1..MaxRequests

\* encoding/json reading a string literal from after its opening quote: a
\* backslash escapes the quote, the backslash and the slash (the other
\* escapes do not occur in the model), the first bare quote ends the
\* string, and nothing may follow it.
RECURSIVE DecodeChars(_, _)
DecodeChars(s, acc) ==
    IF s = <<>> THEN [ok |-> FALSE, val |-> <<>>]
    ELSE IF Head(s) = "\""
    THEN IF Tail(s) = <<>> THEN [ok |-> TRUE, val |-> acc]
         ELSE [ok |-> FALSE, val |-> <<>>]
    ELSE IF Head(s) = "\\"
    THEN IF Len(s) >= 2 /\ s[2] \in {"\"", "\\", "/"}
         THEN DecodeChars(SubSeq(s, 3, Len(s)), acc \o <<s[2]>>)
         ELSE [ok |-> FALSE, val |-> <<>>]
    ELSE DecodeChars(Tail(s), acc \o <<Head(s)>>)

\* encoding/json reading a string literal.
DecodeJSONString(literal) ==
    IF literal # <<>> /\ Head(literal) = "\"" THEN DecodeChars(Tail(literal), <<>>)
    ELSE [ok |-> FALSE, val |-> <<>>]

\* fmt.Sprintf(`{"challenge":"%s"}`, slackEvent.Challenge): the characters
\* of the challenge are put between the quotes as they are.
ChallengeResponse(challenge) ==
    <<"{", "\"", "challenge", "\"", ":", "\"">> \o challenge \o <<"\"", "}">>

\* json.Unmarshal([]byte(request.Body), &slackEvent) on the bodies of the model.
Unmarshal(body) ==
    LET none == [ok |-> FALSE, Type |-> "", EventType |-> "", Challenge |-> <<>>,
                 User |-> "", Text |-> "", Channel |-> ""]
    IN  IF body = BodyMention
        THEN [none EXCEPT !.ok = TRUE, !.Type = "event_callback",
                          !.EventType = "app_mention", !.User = "U1",
                          !.Text = "list instances", !.Channel = "C1"]
        ELSE IF body # <<>> /\ Head(body) = "u"
        THEN [none EXCEPT !.ok = DecodeJSONString(Tail(body)).ok,
                          !.Type = "url_verification",
                          !.Challenge = DecodeJSONString(Tail(body)).val]
        ELSE IF body = BodyOtherEvent
        THEN [none EXCEPT !.ok = TRUE, !.Type = "event_callback",
                          !.EventType = "message", !.User = "U1",
                          !.Text = "hello", !.Channel = "C1"]
        ELSE IF body = BodyOtherType
        THEN [none EXCEPT !.ok = TRUE, !.Type = "app_rate_limited"]
        ELSE none

RequestBodies ==
    {BodyMention, BodyVerify, BodyVerifyQuote, BodyOtherEvent, BodyOtherType,
     BodyNotJSON, BodyEmpty}

\* The X-Slack-Request-Timestamp header of a request received at tick t: the
\* current second, a second too old, or no header.
RequestTimestamps(t) ==
    {FormatInt(Unix(t)), FormatInt(Unix(t) - MaxAge - 1), <<>>}

\* The X-Slack-Signature header: signed with the deployment's key, signed
\* with another key, or no header.
RequestSignatures(body, timestamp) ==
    {ExpectedSig(body, timestamp, SigningKey), ExpectedSig(body, timestamp, WrongKey), <<>>}

IdleRequest ==
    [pc |-> "idle", checked |-> FALSE, valid |-> FALSE, event |-> <<>>,
     status |-> 0, respBody |-> "", err |-> "", conv |-> ZeroConversation]

\* The response of a finished invocation.
Respond(r, status, respBody, err) ==
    [r EXCEPT !.pc = "done", !.status = status, !.respBody = respBody, !.err = err]

\* The check of the signature in Handler.
SignatureAccepted(body, timestamp, signature, t) ==
    ValidateSlackRequest(body, timestamp, signature, SigningKey, Unix(t))

\* Mutant: every event_callback is dispatched as a mention.
HandleEvent_AnyCallback(r, body, awsOK, id, t) ==
    LET ev == Unmarshal(body)
        parsed == [r EXCEPT !.event = <<ev.Type, ev.EventType, ev.Challenge>>]
    IN  IF ~ev.ok THEN Respond(r, 400, "Invalid event format", "")
        ELSE IF ev.Type = "url_verification"
        THEN Respond(parsed, 200, ChallengeResponse(ev.Challenge), "")
        ELSE IF ev.Type = "event_callback"
        THEN IF ~awsOK
             THEN Respond(parsed, 500, "Failed to process mention", "load aws config")
             ELSE [parsed EXCEPT !.pc = "save",
                       !.conv = NewConversation(id, ev.Channel, ev.User, ev.Text, t)]
        ELSE Respond(parsed, 200, "ok", "")

\* Handler after an accepted signature, up to its first call of another
\* service: the body is parsed and the event answered, ignored, or a
\* conversation is made for the mention (handleAppMention up to convRepo.Save).
HandleEvent(r, body, awsOK, id, t) ==
    LET ev == Unmarshal(body)
        parsed == [r EXCEPT !.event = <<ev.Type, ev.EventType, ev.Challenge>>]
    IN  IF ~ev.ok THEN Respond(r, 400, "Invalid event format", "")
        ELSE IF ev.Type = "url_verification"
        THEN Respond(parsed, 200, ChallengeResponse(ev.Challenge), "")
        ELSE IF ev.Type = "event_callback" /\ ev.EventType = "app_mention"
        THEN IF ~awsOK
             THEN Respond(parsed, 500, "Failed to process mention", "load aws config")
             ELSE [parsed EXCEPT !.pc = "save",
                       !.conv = NewConversation(id, ev.Channel, ev.User, ev.Text, t)]
        ELSE Respond(parsed, 200, "ok", "")

\* Mutant: the result of the validation is logged and not acted on.
AfterValidation_Proceed(r, body, accepted, awsOK, id, t) ==
    HandleEvent([r EXCEPT !.checked = TRUE, !.valid = accepted], body, awsOK, id, t)

\* Handler from the result of ValidateSlackRequest on.
AfterValidation(r, body, accepted, awsOK, id, t) ==
    LET checked == [r EXCEPT !.checked = TRUE, !.valid = accepted]
    IN  IF ~accepted THEN Respond(checked, 400, "Invalid signature", "")
        ELSE HandleEvent(checked, body, awsOK, id, t)

\* Handler, first part.  cfgOK: appconfig.Load and ValidateLambda succeed;
\* awsOK: config.LoadDefaultConfig succeeds.  Invocations are numbered in
\* the order they begin.
Handler(r) ==
    /\ req[r].pc = "idle"
    /\ \A q \in 1..(r - 1) : req[q].pc # "idle"
    /\ \E body \in RequestBodies :
         \E accepted \in {SignatureAccepted(body, timestamp, signature, now) :
                             <<timestamp, signature>> \in
                                 UNION {{<<ts, sig>> : sig \in RequestSignatures(body, ts)} :
                                           ts \in RequestTimestamps(now)}} :
           \E cfgOK \in BOOLEAN, awsOK \in BOOLEAN :
             LET next == IF ~cfgOK
                         THEN Respond(req[r], 500, "Failed to load config", "config")
                         ELSE AfterValidation(req[r], body, accepted, awsOK,
                                  generateConversationID(nextID), now)
             IN  /\ req' = [req EXCEPT ![r] = next]
                 /\ nextID' = IF next.pc = "save" THEN nextID + 1 ELSE nextID
    /\ UNCHANGED <<call, now, obj, store, saves, posts, execs, calls, hist, appended, faults, worker,
                   runs, inbox, made, lookup, channels, config>>

\* Mutant: the error of the first Save is logged and the dispatch goes on.
AfterSave_ErrorIgnored(r, ok) == [r EXCEPT !.pc = "ack"]

\* handleAppMention after convRepo.Save returned.
AfterSave(r, ok) ==
    IF ok THEN [r EXCEPT !.pc = "ack"]
    ELSE Respond(r, 500, "Failed to process mention", "save conversation")

\* handleAppMention: convRepo.Save(ctx, conversation).
SaveConversation(r) ==
    /\ req[r].pc = "save"
    /\ \E ok \in BOOLEAN :
         /\ store' = IF ok THEN Save(store, req[r].conv) ELSE store
         /\ saves' = IF ok
                     THEN saves \cup {[req |-> r, id |-> req[r].conv.ConversationID,
                                       step |-> "save"]}
                     ELSE saves
         /\ req' = [req EXCEPT ![r] = AfterSave(req[r], ok)]
    /\ UNCHANGED <<call, now, obj, nextID, posts, execs, calls, hist, appended, faults, worker,
                   runs, inbox, made, lookup, channels, config>>

\* Mutant: a failure to post the acknowledgment is returned as the error
\* of the dispatch.
PostAcknowledgment_Fatal(r) ==
    /\ req[r].pc = "ack"
    /\ \E ok \in BOOLEAN :
         /\ posts' = IF ok
                     THEN posts \cup {[req |-> r, channel |-> req[r].conv.ChannelID,
                                       kind |-> "ack"]}
                     ELSE posts
         /\ req' = [req EXCEPT ![r] =
                       IF ok THEN [req[r] EXCEPT !.pc = "start"]
                       ELSE Respond(req[r], 500, "Failed to process mention",
                                    "post acknowledgment")]
    /\ UNCHANGED <<call, now, obj, store, nextID, saves, execs, calls, hist, appended, faults, worker,
                   runs, inbox, made, lookup, channels, config>>

\* handleAppMention: the acknowledgment; a failure to post is logged.
PostAcknowledgment(r) ==
    /\ req[r].pc = "ack"
    /\ \E ok \in BOOLEAN :
         posts' = IF ok
                  THEN posts \cup {[req |-> r, channel |-> req[r].conv.ChannelID,
                                    kind |-> "ack"]}
                  ELSE posts
    /\ req' = [req EXCEPT ![r].pc = "start"]
    /\ UNCHANGED <<call, now, obj, store, nextID, saves, execs, calls, hist, appended, faults, worker,
                   runs, inbox, made, lookup, channels, config>>

\* The ARN Step Functions gives the execution named after the conversation.
ExecutionArnOf(id) == <<"execution", id>>

\* stepfunctions.Client.StartConversation: the input handed to StartExecution.
StartInput(conv) ==
    [conversationId |-> conv.ConversationID, channelId |-> conv.ChannelID,
     userId |-> conv.UserID]

\* Mutant: an error of StartConversation is logged and the dispatch goes on
\* to its second Save.
AfterStart_ErrorIgnored(r, ok, t) ==
    [r EXCEPT !.pc = "resave",
              !.conv = ConversationUpdateStatus(
                           [r.conv EXCEPT !.ExecutionArn =
                                IF ok THEN ExecutionArnOf(r.conv.ConversationID) ELSE <<>>],
                           StatusPending, t)]

\* handleAppMention after sfClient.StartConversation returned, at tick t: on
\* success the ARN is put on the conversation and UpdateStatus(pending) is
\* called on it; on an error the user is to be notified.
AfterStart(r, ok, t) ==
    IF ok
    THEN [r EXCEPT !.pc = "resave",
                   !.conv = ConversationUpdateStatus(
                                [r.conv EXCEPT !.ExecutionArn =
                                     ExecutionArnOf(r.conv.ConversationID)],
                                StatusPending, t)]
    ELSE [r EXCEPT !.pc = "notify", !.err = "start step function"]

\* handleAppMention: sfClient.StartConversation(ctx, arn, conversation).
StartConversation(r) ==
    /\ req[r].pc = "start"
    /\ \E ok \in BOOLEAN :
         /\ execs' = IF ok
                     THEN execs \cup {[req |-> r, input |-> StartInput(req[r].conv)]}
                     ELSE execs
         /\ req' = [req EXCEPT ![r] = AfterStart(req[r], ok, now)]
    /\ UNCHANGED <<call, now, obj, store, nextID, saves, posts, calls, hist, appended, faults, worker,
                   runs, inbox, made, lookup, channels, config>>

\* handleAppMention, StartConversation failed: the failure message is posted
\* (its own failure ignored) and the error returned; Handler answers 500.
NotifyStartFailure(r) ==
    /\ req[r].pc = "notify"
    /\ \E ok \in BOOLEAN :
         posts' = IF ok
                  THEN posts \cup {[req |-> r, channel |-> req[r].conv.ChannelID,
                                    kind |-> "failure"]}
                  ELSE posts
    /\ req' = [req EXCEPT ![r] =
                  Respond(req[r], 500, "Failed to process mention", req[r].err)]
    /\ UNCHANGED <<call, now, obj, store, nextID, saves, execs, calls, hist, appended, faults, worker,
                   runs, inbox, made, lookup, channels, config>>

\* handleAppMention, StartConversation succeeded: the conversation is saved
\* again with the ARN; a failure is logged.  Handler answers 200.
SaveExecutionArn(r) ==
    /\ req[r].pc = "resave"
    /\ \E ok \in BOOLEAN :
         /\ store' = IF ok THEN Save(store, req[r].conv) ELSE store
         /\ saves' = IF ok
                     THEN saves \cup {[req |-> r, id |-> req[r].conv.ConversationID,
                                       step |-> "resave"]}
                     ELSE saves
    /\ req' = [req EXCEPT ![r] = Respond(req[r], 200, "ok", "")]
    /\ UNCHANGED <<call, now, obj, nextID, posts, execs, calls, hist, appended, faults, worker,
                   runs, inbox, made, lookup, channels, config>>

----------------------------------------------------------------------------
(* cmd/agent: main, the process Step Functions runs for an execution *)

\* Step Functions has begun no execution for the conversation.
NoRun == [state |-> "none", startDate |-> ZeroTime, stopDate |-> ZeroTime]

\* No read of the repository has been made.
NoRead == [op |-> "none", id |-> 0, channel |-> "", ok |-> FALSE, conv |-> ZeroConversation]

\* No agent process has been started for the conversation.
NoWorker == [pc |-> "none", conv |-> ZeroConversation, err |-> ""]

\* log.Fatal / log.Fatalf: the process exits at once.
Fatal(w, err) == [w EXCEPT !.pc = "fatal", !.err = err]

\* main up to the clients: envOK, CONVERSATION_ID is set; cfgOK,
\* appconfig.Load succeeds; awsOK, config.LoadDefaultConfig succeeds.
AfterSetup(w, envOK, cfgOK, awsOK) ==
    IF ~envOK THEN Fatal(w, "CONVERSATION_ID environment variable not set")
    ELSE IF ~cfgOK THEN Fatal(w, "Failed to load config")
    ELSE IF ~awsOK THEN Fatal(w, "Failed to load AWS config")
    ELSE [w EXCEPT !.pc = "get"]

\* The task of an execution starts main for the execution's conversation.
AgentStart(id) ==
    /\ worker[id].pc = "none"
    /\ \E e \in execs : e.input.conversationId = id
    /\ \E envOK \in BOOLEAN, cfgOK \in BOOLEAN, awsOK \in BOOLEAN :
         worker' = [worker EXCEPT ![id] = AfterSetup(@, envOK, cfgOK, awsOK)]
    /\ UNCHANGED <<call, now, obj, store, req, nextID, saves, posts, execs, calls,
                   hist, appended, faults,
                   runs, inbox, made, lookup, channels, config>>

\* main after convRepo.GetByID returned; ok: GetItem succeeded.
AfterGetByID(w, ok, found) ==
    IF ok /\ found.ok THEN [w EXCEPT !.pc = "post", !.conv = found.conv]
    ELSE Fatal(w, "Failed to get conversation")

\* main: conversation, err := convRepo.GetByID(ctx, conversationID).
AgentGetConversation(id) ==
    /\ worker[id].pc = "get"
    /\ \E ok \in BOOLEAN :
         worker' = [worker EXCEPT ![id] = AfterGetByID(@, ok, GetByID(store, id))]
    /\ UNCHANGED <<call, now, obj, store, req, nextID, saves, posts, execs, calls,
                   hist, appended, faults,
                   runs, inbox, made, lookup, channels, config>>

\* main: the placeholder response is posted (a failure is logged) and main
\* returns.
AgentPostMessage(id) ==
    /\ worker[id].pc = "post"
    /\ \E ok \in BOOLEAN :
         posts' = IF ok
                  THEN posts \cup {[req |-> 0, channel |-> worker[id].conv.ChannelID,
                                    kind |-> "ready"]}
                  ELSE posts
    /\ worker' = [worker EXCEPT ![id].pc = "done"]
    /\ UNCHANGED <<call, now, obj, store, req, nextID, saves, execs, calls,
                   hist, appended, faults,
                   runs, inbox, made, lookup, channels, config>>

\* What users write in the channel of a conversation.
UserTexts == {"done", "DONE", "exit", "list instances"}

\* A user writes in the channel of a conversation whose worker is running.
\* main reads nothing from Slack, so the text stays where it is.
UserSays(id, text) ==
    /\ worker[id].pc \in {"get", "post"}
    /\ Len(inbox[id]) < MaxInputs
    /\ inbox' = [inbox EXCEPT ![id] = Append(@, text)]
    /\ UNCHANGED <<call, now, obj, store, req, nextID, saves, posts, execs, calls,
                   hist, appended, faults, worker, runs, made, lookup, channels, config>>

\* INACTIVITY_TIMEOUT_MINUTES, by default.
InactivityTimeoutMinutes == 30

\* (c *Config) GetInactivityTimeout(), in ticks.
GetInactivityTimeout(minutes) == minutes * 60 * TicksPerSecond

\* The interval at which the watchdog of a worker looks at the heartbeat.
WatchdogInterval == 30 * TicksPerSecond

\* The inactivity threshold goes by on the wall clock.
Elapse ==
    /\ now + GetInactivityTimeout(InactivityTimeoutMinutes)
           <= MaxThresholds * GetInactivityTimeout(InactivityTimeoutMinutes)
    /\ now' = now + GetInactivityTimeout(InactivityTimeoutMinutes)
    /\ UNCHANGED <<call, obj, store, req, nextID, saves, posts, execs, calls,
                   hist, appended, faults, worker,
                   runs, inbox, made, lookup, channels, config>>

----------------------------------------------------------------------------
(* The state machine that runs the agent for an execution.  Its definition *)
(* is not among the sources; it is modelled from the specification of the  *)
(* Execution Orchestrator: a run is launched when the execution is         *)
(* started, and a deferred stop is scheduled for launch time plus the hard *)
(* ceiling and cancelled when the run completes first.                     *)

\* The hard ceiling of a run: one hour, in ticks.
HardCeiling == 60 * 60 * TicksPerSecond

\* Mutant: the deferred stop is scheduled an hour late.
Deadline_Late(startDate) == startDate + 2 * HardCeiling

\* The time of the deferred stop of a run launched at startDate.
Deadline(startDate) == startDate + HardCeiling

\* The run of a started execution is launched.
RunBegins(id) ==
    /\ runs[id].state = "none"
    /\ \E e \in execs : e.input.conversationId = id
    /\ runs' = [runs EXCEPT ![id] = [state |-> "running", startDate |-> now,
                                     stopDate |-> ZeroTime]]
    /\ UNCHANGED <<call, now, obj, store, req, nextID, saves, posts, execs, calls,
                   hist, appended, faults, worker, inbox, made, lookup, channels, config>>

\* The agent process has exited: the run completes and its deferred stop is
\* cancelled.
RunEnds(id) ==
    /\ runs[id].state = "running"
    /\ worker[id].pc \in {"done", "fatal"}
    /\ runs' = [runs EXCEPT ![id].state = "ended", ![id].stopDate = now]
    /\ UNCHANGED <<call, now, obj, store, req, nextID, saves, posts, execs, calls,
                   hist, appended, faults, worker, inbox, made, lookup, channels, config>>

\* The deferred stop of a run that has not completed: stopRun.
StopRun(id) ==
    /\ runs[id].state = "running"
    /\ now >= Deadline(runs[id].startDate)
    /\ runs' = [runs EXCEPT ![id].state = "stopped", ![id].stopDate = now]
    /\ UNCHANGED <<call, now, obj, store, req, nextID, saves, posts, execs, calls,
                   hist, appended, faults, worker, inbox, made, lookup, channels, config>>

\* A step of the agent of a run that is under way.
RunStep(id) ==
    /\ runs[id].state = "running"
    /\ \/ AgentStart(id)
       \/ AgentGetConversation(id)
       \/ AgentPostMessage(id)

\* Half an hour goes by.  A launch is not delayed and a deferred stop is
\* not late: the clock does not pass either.
ElapseRun ==
    /\ now + HardCeiling \div 2 <= MaxHours * HardCeiling
    /\ \A id \in DOMAIN runs :
          /\ (\E e \in execs : e.input.conversationId = id) => runs[id].state # "none"
          /\ runs[id].state = "running"
                => now + HardCeiling \div 2 <= Deadline(runs[id].startDate)
    /\ now' = now + HardCeiling \div 2
    /\ UNCHANGED <<call, obj, store, req, nextID, saves, posts, execs, calls,
                   hist, appended, faults, worker, runs, inbox, made, lookup, channels, config>>

----------------------------------------------------------------------------
(* Other callers of the repository (the worker of a conversation, a sweep) *)

\* A client calls UpdateStatus(id, status).
ClientUpdateStatus(id, status) ==
    /\ calls < MaxCalls
    /\ calls' = calls + 1
    /\ store' = RepositoryUpdateStatus(store, id, status, now)
    /\ UNCHANGED <<call, now, obj, req, nextID, saves, posts, execs, hist, appended, faults, worker,
                   runs, inbox, made, lookup, channels, config>>

\* A client calls UpdateHeartbeat(id, timestamp): with the current time, or
\* with any other time.
ClientUpdateHeartbeat(id, timestamp) ==
    /\ calls < MaxCalls
    /\ calls' = calls + 1
    /\ store' = RepositoryUpdateHeartbeat(store, id, timestamp)
    /\ UNCHANGED <<call, now, obj, req, nextID, saves, posts, execs, hist, appended, faults, worker,
                   runs, inbox, made, lookup, channels, config>>

\* The wall clock advances.
Tick ==
    /\ now < MaxTime
    /\ now' = now + 1
    /\ UNCHANGED <<call, obj, store, req, nextID, saves, posts, execs, calls, hist, appended, faults, worker,
                   runs, inbox, made, lookup, channels, config>>

\* The arguments callers create conversations with.
Channels == {"C1", "C2"}
Users == {"U1", "U2"}
Commands == {"list instances", ""}

\* A caller makes a conversation with NewConversation and saves it; made
\* records the arguments of every conversation that was saved.
CreateConversation(channelID, userID, initialCommand) ==
    /\ generateConversationID(nextID) \in DOMAIN store
    /\ nextID' = nextID + 1
    /\ \E ok \in BOOLEAN :
         LET id == generateConversationID(nextID)
             conv == NewConversation(id, channelID, userID, initialCommand, now)
         IN  /\ store' = IF ok THEN Save(store, conv) ELSE store
             /\ made' = IF ok
                        THEN Append(made, [id |-> id, channelID |-> channelID,
                                           userID |-> userID,
                                           initialCommand |-> initialCommand])
                        ELSE made
    /\ UNCHANGED <<call, now, obj, req, saves, posts, execs, calls, hist, appended,
                   faults, worker, runs, inbox, lookup, channels, config>>

\* A caller reads a conversation with GetByID.
ReadConversation(id) ==
    /\ lookup' = [op |-> "GetByID", id |-> id, channel |-> "",
                  ok |-> GetByID(store, id).ok, conv |-> GetByID(store, id).conv]
    /\ UNCHANGED <<call, now, obj, store, req, nextID, saves, posts, execs, calls,
                   hist, appended, faults, worker, runs, inbox, made, channels, config>>

\* A caller looks for the latest conversation of a channel with
\* GetByChannelID.
FindByChannel(channelID) ==
    /\ \E indexName \in DeployedIndexNames :
         \E result \in GetByChannelID(store, channelID, indexName) :
           lookup' = [op |-> "GetByChannelID", id |-> 0, channel |-> channelID,
                      ok |-> result.ok, conv |-> result.conv]
    /\ UNCHANGED <<call, now, obj, store, req, nextID, saves, posts, execs, calls,
                   hist, appended, faults, worker, runs, inbox, made, channels, config>>

----------------------------------------------------------------------------
(* handler.ChannelCreator over a SlackClientInterface *)

\* rand.Intn(SuffixRange) is the suffix of a channel name.
SuffixRange == 10000
Suffixes == {0, SuffixRange - 1}

\* generateChannelName() at tick t with the random suffix drawn: the word
\* incident, the time to the second, the suffix.
generateChannelName(t, suffix) == <<"incident", Unix(t), suffix>>

\* The channel ids Slack gives, and the ones callers pass to archive.
SlackChannelIDs == {"C123456", "C987654"}
ArchiveChannelIDs == SlackChannelIDs \cup {""}

\* Mutant: a failed invitation is returned as the error of the creation.
AfterCreateConversation_InviteFatal(userID, created, inviteOK) ==
    IF ~created.ok
    THEN [channelID |-> "", err |-> "create channel", invites |-> <<>>]
    ELSE [channelID |-> IF inviteOK THEN created.id ELSE "",
          err |-> IF inviteOK THEN "" ELSE "invite user",
          invites |-> <<[channel |-> created.id, user |-> userID, ok |-> inviteOK]>>]

\* CreateConversationChannel from the result of slackClient.CreateConversation
\* on: the error is returned and nobody invited, or the user is invited, a
\* failure of that logged, and the channel id returned.
AfterCreateConversation(userID, created, inviteOK) ==
    IF ~created.ok
    THEN [channelID |-> "", err |-> "create channel", invites |-> <<>>]
    ELSE [channelID |-> created.id, err |-> "",
          invites |-> <<[channel |-> created.id, user |-> userID, ok |-> inviteOK]>>]

\* Mutant: the error of slackClient.ArchiveConversation is returned.
AfterArchiveConversation_Fatal(archiveOK) == IF archiveOK THEN "" ELSE "archive failed"

\* ArchiveConversationChannel from the result of
\* slackClient.ArchiveConversation on: an error is logged, nil returned.
AfterArchiveConversation(archiveOK) == ""

\* (cc *ChannelCreator) CreateConversationChannel(ctx, userID).  The Slack
\* client creates the channel and gives its id, or fails; the invitation
\* succeeds or fails.
CreateConversationChannel(userID) ==
    /\ Len(channels) < MaxChannelCalls
    /\ \E suffix \in Suffixes, inviteOK \in BOOLEAN :
         \E created \in {[ok |-> FALSE, id |-> ""]}
                          \cup {[ok |-> TRUE, id |-> c] : c \in SlackChannelIDs} :
           LET result == AfterCreateConversation(userID, created, inviteOK)
           IN  channels' = Append(channels,
                   [op |-> "create", name |-> generateChannelName(now, suffix),
                    user |-> userID, channel |-> created.id, slackOK |-> created.ok,
                    invites |-> result.invites, result |-> result.channelID,
                    err |-> result.err])
    /\ UNCHANGED <<call, now, obj, store, req, nextID, saves, posts, execs, calls,
                   hist, appended, faults, worker, runs, inbox, made, lookup, config>>

\* (cc *ChannelCreator) ArchiveConversationChannel(ctx, channelID).
ArchiveConversationChannel(channelID) ==
    /\ Len(channels) < MaxChannelCalls
    /\ \E archiveOK \in BOOLEAN :
         channels' = Append(channels,
             [op |-> "archive", name |-> <<>>, user |-> "", channel |-> channelID,
              slackOK |-> archiveOK, invites |-> <<>>, result |-> "",
              err |-> AfterArchiveConversation(archiveOK)])
    /\ UNCHANGED <<call, now, obj, store, req, nextID, saves, posts, execs, calls,
                   hist, appended, faults, worker, runs, inbox, made, lookup, config>>

----------------------------------------------------------------------------
(* config: Load, Validate, GetInactivityTimeout *)

\* An environment variable: not set, or set to a value.  The value of a
\* variable read with getEnvInt is a sequence of characters.
Unset == [set |-> FALSE, value |-> ""]
UnsetInt == [set |-> FALSE, value |-> <<>>]
SetTo(value) == [set |-> TRUE, value |-> value]

\* The values the environment gives the required variables, and the ones
\* it gives INACTIVITY_TIMEOUT_MINUTES.
EnvStrings == {Unset, SetTo(""), SetTo("set")}
EnvInts ==
    {UnsetInt, SetTo(<<>>), SetTo(<<"a", "b", "c">>), SetTo(<<"3", "0">>),
     SetTo(<<"5">>), SetTo(<<"+", "5">>), SetTo(<<"0">>), SetTo(<<"-", "5">>)}

Environments ==
    [SLACK_BOT_TOKEN : EnvStrings, SLACK_SIGNING_KEY : EnvStrings,
     CONVERSATIONS_TABLE : EnvStrings, CONVERSATION_HISTORY_TABLE : EnvStrings,
     INACTIVITY_TIMEOUT_MINUTES : EnvInts]

\* The environment with no variable set.
EmptyEnvironment ==
    [SLACK_BOT_TOKEN |-> Unset, SLACK_SIGNING_KEY |-> Unset,
     CONVERSATIONS_TABLE |-> Unset, CONVERSATION_HISTORY_TABLE |-> Unset,
     INACTIVITY_TIMEOUT_MINUTES |-> UnsetInt]

\* getEnv(key, defaultValue) on the variable.
getEnv(variable, defaultValue) ==
    IF variable.set THEN variable.value ELSE defaultValue

\* getEnvInt(key, defaultValue) on the variable: the value strconv.Atoi
\* reads from it, the default when it is not set or no number.
getEnvInt(variable, defaultValue) ==
    IF variable.set /\ ParseInt(variable.value).ok
    THEN ParseInt(variable.value).val
    ELSE defaultValue

\* (c *Config) Validate(): the error, "" for nil.
ConfigValidate(c) ==
    IF c.SlackBotToken = "" THEN "SLACK_BOT_TOKEN is required"
    ELSE IF c.SlackSigningKey = "" THEN "SLACK_SIGNING_KEY is required"
    ELSE IF c.ConversationsTable = "" THEN "CONVERSATIONS_TABLE is required"
    ELSE IF c.ConversationHistoryTable = ""
    THEN "CONVERSATION_HISTORY_TABLE is required"
    ELSE ""

\* The fields of Config that Load reads from the variables of the model.
ConfigOf(env) ==
    [SlackBotToken            |-> getEnv(env.SLACK_BOT_TOKEN, ""),
     SlackSigningKey          |-> getEnv(env.SLACK_SIGNING_KEY, ""),
     ConversationsTable       |-> getEnv(env.CONVERSATIONS_TABLE, "cloudops-conversations"),
     ConversationHistoryTable |-> getEnv(env.CONVERSATION_HISTORY_TABLE,
                                         "cloudops-conversation-history"),
     InactivityTimeoutMinutes |-> getEnvInt(env.INACTIVITY_TIMEOUT_MINUTES,
                                            InactivityTimeoutMinutes)]

\* Load(): the Config and the error of its validation.
Load(env) == [cfg |-> ConfigOf(env), err |-> ConfigValidate(ConfigOf(env))]

NoConfig ==
    [env |-> EmptyEnvironment, pc |-> "start", cfg |-> ConfigOf(EmptyEnvironment),
     err |-> "", timeout |-> 0]

\* A process calls config.Load().
LoadConfig ==
    /\ config.pc = "start"
    /\ config' = [config EXCEPT
                     !.pc = IF Load(config.env).err = "" THEN "loaded" ELSE "failed",
                     !.cfg = Load(config.env).cfg,
                     !.err = Load(config.env).err]
    /\ UNCHANGED <<call, now, obj, store, req, nextID, saves, posts, execs, calls,
                   hist, appended, faults, worker, runs, inbox, made, lookup, channels>>

\* The process calls GetInactivityTimeout() on the Config that Load returned.
ReadInactivityTimeout ==
    /\ config.pc = "loaded"
    /\ config' = [config EXCEPT
                     !.pc = "read",
                     !.timeout = GetInactivityTimeout(config.cfg.InactivityTimeoutMinutes)]
    /\ UNCHANGED <<call, now, obj, store, req, nextID, saves, posts, execs, calls,
                   hist, appended, faults, worker, runs, inbox, made, lookup, channels>>

----------------------------------------------------------------------------
(* The system: Lambda invocations, the table, other repository callers *)

Init ==
    /\ call = NoCall
    /\ now = 0
    /\ obj = ZeroConversation
    /\ store = [id \in ConvIDs |-> NoItem]
    /\ req = [r \in Reqs |-> IdleRequest]
    /\ nextID = 0
    /\ saves = {}
    /\ posts = {}
    /\ execs = {}
    /\ calls = 0
    /\ hist = [id \in ConvIDs |-> <<>>]
    /\ appended = [id \in ConvIDs |-> <<>>]
    /\ faults = FALSE
    /\ worker = [id \in ConvIDs |-> NoWorker]
    /\ runs = [id \in ConvIDs |-> NoRun]
    /\ inbox = [id \in ConvIDs |-> <<>>]
    /\ made = <<>>
    /\ lookup = NoRead
    /\ channels = <<>>
    /\ config = NoConfig

Next ==
    \/ \E r \in Reqs : Handler(r)
    \/ \E r \in Reqs : SaveConversation(r)
    \/ \E r \in Reqs : PostAcknowledgment(r)
    \/ \E r \in Reqs : StartConversation(r)
    \/ \E r \in Reqs : NotifyStartFailure(r)
    \/ \E r \in Reqs : SaveExecutionArn(r)
    \/ \E id \in ConvIDs, status \in Statuses : ClientUpdateStatus(id, status)
    \/ \E id \in ConvIDs, timestamp \in Times : ClientUpdateHeartbeat(id, timestamp)
    \/ Tick

Spec == Init /\ [][Next]_vars

----------------------------------------------------------------------------
(* The validator alone: one call on each combination of arguments *)

InitValidate ==
    /\ \E body \in CallBodies, timestamp \in CallTimestamps, signingKey \in CallKeys :
         \E signature \in CallSignatures(body, timestamp, signingKey) :
           call = [NoCall EXCEPT !.body = body, !.timestamp = timestamp,
                                 !.signature = signature, !.signingKey = signingKey]
    /\ now = 0
    /\ obj = ZeroConversation
    /\ store = [id \in ConvIDs |-> NoItem]
    /\ req = [r \in Reqs |-> IdleRequest]
    /\ nextID = 0
    /\ saves = {}
    /\ posts = {}
    /\ execs = {}
    /\ calls = 0
    /\ hist = [id \in ConvIDs |-> <<>>]
    /\ appended = [id \in ConvIDs |-> <<>>]
    /\ faults = FALSE
    /\ worker = [id \in ConvIDs |-> NoWorker]
    /\ runs = [id \in ConvIDs |-> NoRun]
    /\ inbox = [id \in ConvIDs |-> <<>>]
    /\ made = <<>>
    /\ lookup = NoRead
    /\ channels = <<>>
    /\ config = NoConfig

NextValidate == Validate

SpecValidate == InitValidate /\ [][NextValidate]_vars

----------------------------------------------------------------------------
(* One in-memory Conversation and the calls of its methods *)


\* conv.UpdateStatus(status)
ObjUpdateStatus(status) ==
    /\ obj' = ConversationUpdateStatus(obj, status, now)
    /\ UNCHANGED <<call, now, store, req, nextID, saves, posts, execs, calls, hist, appended, faults, worker,
                   runs, inbox, made, lookup, channels, config>>

\* conv.UpdateHeartbeat()
ObjUpdateHeartbeat ==
    /\ obj' = ConversationUpdateHeartbeat(obj, now)
    /\ UNCHANGED <<call, now, store, req, nextID, saves, posts, execs, calls, hist, appended, faults, worker,
                   runs, inbox, made, lookup, channels, config>>

InitConversation ==
    /\ call = NoCall
    /\ now = 0
    /\ \E channelID \in Channels, userID \in Users, initialCommand \in Commands :
         obj = NewConversation(1, channelID, userID, initialCommand, 0)
    /\ store = [id \in ConvIDs |-> NoItem]
    /\ req = [r \in Reqs |-> IdleRequest]
    /\ nextID = 1
    /\ saves = {}
    /\ posts = {}
    /\ execs = {}
    /\ calls = 0
    /\ hist = [id \in ConvIDs |-> <<>>]
    /\ appended = [id \in ConvIDs |-> <<>>]
    /\ faults = FALSE
    /\ worker = [id \in ConvIDs |-> NoWorker]
    /\ runs = [id \in ConvIDs |-> NoRun]
    /\ inbox = [id \in ConvIDs |-> <<>>]
    /\ made = <<>>
    /\ lookup = NoRead
    /\ channels = <<>>
    /\ config = NoConfig

NextConversation ==
    \/ \E status \in Statuses : ObjUpdateStatus(status)
    \/ ObjUpdateHeartbeat
    \/ Tick

SpecConversation == InitConversation /\ [][NextConversation]_vars

----------------------------------------------------------------------------
(* The dispatcher alone: events delivered to the Lambda one after another,  *)
(* a later one being a further mention or Slack's redelivery of one that    *)
(* was answered with an error                                               *)

Mentions == 1..MaxMentions

InitMentions ==
    /\ call = NoCall
    /\ now = 0
    /\ obj = ZeroConversation
    /\ store = [id \in Mentions |-> NoItem]
    /\ req = [r \in Mentions |-> IdleRequest]
    /\ nextID = 0
    /\ saves = {}
    /\ posts = {}
    /\ execs = {}
    /\ calls = 0
    /\ hist = [id \in Mentions |-> <<>>]
    /\ appended = [id \in Mentions |-> <<>>]
    /\ faults = FALSE
    /\ worker = [id \in Mentions |-> NoWorker]
    /\ runs = [id \in Mentions |-> NoRun]
    /\ inbox = [id \in Mentions |-> <<>>]
    /\ made = <<>>
    /\ lookup = NoRead
    /\ channels = <<>>
    /\ config = NoConfig

\* An invocation begins when no other is under way.
NextDelivery(r) ==
    /\ \A q \in DOMAIN req : req[q].pc \in {"idle", "done"}
    /\ Handler(r)

NextMentions ==
    \/ \E r \in DOMAIN req : NextDelivery(r)
    \/ \E r \in DOMAIN req : SaveConversation(r)
    \/ \E r \in DOMAIN req : PostAcknowledgment(r)
    \/ \E r \in DOMAIN req : StartConversation(r)
    \/ \E r \in DOMAIN req : NotifyStartFailure(r)
    \/ \E r \in DOMAIN req : SaveExecutionArn(r)
    \/ Tick

SpecMentions == InitMentions /\ [][NextMentions]_vars

----------------------------------------------------------------------------
(* A mention and the worker of its conversation: the Lambda, Step Functions *)
(* running the agent for every execution started, and the wall clock.  Each *)
(* process goes on as long as it has a step to take.                        *)

NextWorker ==
    \/ \E r \in DOMAIN req : Handler(r)
    \/ \E r \in DOMAIN req : SaveConversation(r)
    \/ \E r \in DOMAIN req : PostAcknowledgment(r)
    \/ \E r \in DOMAIN req : StartConversation(r)
    \/ \E r \in DOMAIN req : NotifyStartFailure(r)
    \/ \E r \in DOMAIN req : SaveExecutionArn(r)
    \/ \E id \in DOMAIN worker : AgentStart(id)
    \/ \E id \in DOMAIN worker : AgentGetConversation(id)
    \/ \E id \in DOMAIN worker : AgentPostMessage(id)
    \/ Elapse

SpecWorker == Init /\ [][NextWorker]_vars /\ WF_vars(NextWorker)

----------------------------------------------------------------------------
(* A mention, the run of its execution and the agent inside the run *)

NextOrchestrator ==
    \/ \E r \in DOMAIN req : Handler(r)
    \/ \E r \in DOMAIN req : SaveConversation(r)
    \/ \E r \in DOMAIN req : PostAcknowledgment(r)
    \/ \E r \in DOMAIN req : StartConversation(r)
    \/ \E r \in DOMAIN req : NotifyStartFailure(r)
    \/ \E r \in DOMAIN req : SaveExecutionArn(r)
    \/ \E id \in DOMAIN runs : RunBegins(id)
    \/ \E id \in DOMAIN runs : RunStep(id)
    \/ \E id \in DOMAIN runs : RunEnds(id)
    \/ \E id \in DOMAIN runs : StopRun(id)
    \/ ElapseRun

SpecOrchestrator == Init /\ [][NextOrchestrator]_vars

----------------------------------------------------------------------------
(* The worker and the users who write to it *)

NextTurns ==
    \/ NextWorker
    \/ \E id \in DOMAIN worker, text \in UserTexts : UserSays(id, text)

SpecTurns == Init /\ [][NextTurns]_vars /\ WF_vars(NextTurns)

----------------------------------------------------------------------------
(* The message history of a conversation and its one writer *)

NextHistory ==
    \E id \in DOMAIN hist, role \in MessageRoles, content \in MessageContents :
        SaveMessage(id, role, content)

SpecHistory == Init /\ [][NextHistory]_vars

----------------------------------------------------------------------------
(* The repository and callers that create and read conversations *)

StoredIDs == 1..MaxStored

InitRepository ==
    /\ call = NoCall
    /\ now = 0
    /\ obj = ZeroConversation
    /\ store = [id \in StoredIDs |-> NoItem]
    /\ req = [r \in Reqs |-> IdleRequest]
    /\ nextID = 0
    /\ saves = {}
    /\ posts = {}
    /\ execs = {}
    /\ calls = 0
    /\ hist = [id \in ConvIDs |-> <<>>]
    /\ appended = [id \in ConvIDs |-> <<>>]
    /\ faults = FALSE
    /\ worker = [id \in ConvIDs |-> NoWorker]
    /\ runs = [id \in ConvIDs |-> NoRun]
    /\ inbox = [id \in ConvIDs |-> <<>>]
    /\ made = <<>>
    /\ lookup = NoRead
    /\ channels = <<>>
    /\ config = NoConfig

NextRepository ==
    \/ \E channelID \in Channels, userID \in Users, initialCommand \in Commands :
          CreateConversation(channelID, userID, initialCommand)
    \/ \E id \in DOMAIN store : ReadConversation(id)
    \/ \E channelID \in Channels : FindByChannel(channelID)
    \/ Tick

SpecRepository == InitRepository /\ [][NextRepository]_vars

----------------------------------------------------------------------------
(* The ChannelCreator and its callers *)

NextChannels ==
    \/ \E userID \in Users : CreateConversationChannel(userID)
    \/ \E channelID \in ArchiveChannelIDs : ArchiveConversationChannel(channelID)
    \/ Tick

SpecChannels == Init /\ [][NextChannels]_vars

----------------------------------------------------------------------------
(* A process that loads its configuration from an environment *)

InitConfig ==
    /\ call = NoCall
    /\ now = 0
    /\ obj = ZeroConversation
    /\ store = [id \in ConvIDs |-> NoItem]
    /\ req = [r \in Reqs |-> IdleRequest]
    /\ nextID = 0
    /\ saves = {}
    /\ posts = {}
    /\ execs = {}
    /\ calls = 0
    /\ hist = [id \in ConvIDs |-> <<>>]
    /\ appended = [id \in ConvIDs |-> <<>>]
    /\ faults = FALSE
    /\ worker = [id \in ConvIDs |-> NoWorker]
    /\ runs = [id \in ConvIDs |-> NoRun]
    /\ inbox = [id \in ConvIDs |-> <<>>]
    /\ made = <<>>
    /\ lookup = NoRead
    /\ channels = <<>>
    /\ \E env \in Environments : config = [NoConfig EXCEPT !.env = env]

NextConfig == LoadConfig \/ ReadInactivityTimeout

SpecConfig == InitConfig /\ [][NextConfig]_vars

----------------------------------------------------------------------------
(* Properties *)

StoredStatus(table, id) == Attr(table[id], "status", "")
HasAttr(table, id, name) == name \in DOMAIN table[id]

\* The ids of the conversations the dispatcher has saved.
Created == {s.id : s \in saves}

EffectsOf(r) ==
    {s \in saves : s.req = r} \cup {p \in posts : p.req = r} \cup {e \in execs : e.req = r}

\* C1: when handleAppMention has saved the conversation and StartConversation
\* fails, the stored conversation ends with status failed and a non-empty
\* error.
C1_StartFailureRecorded ==
    \A r \in Reqs :
        (req[r].pc = "done" /\ req[r].err = "start step function")
        => /\ StoredStatus(store, req[r].conv.ConversationID) = StatusFailed
           /\ Attr(store[req[r].conv.ConversationID], "error", "") # ""

\* C2: the stored status of a conversation the dispatcher created, once
\* completed, failed or timeout, is changed by no later step of any component.
C2_TerminalAbsorbing ==
    [][\A id \in Created :
          StoredStatus(store, id) \in Terminal
          => StoredStatus(store', id) = StoredStatus(store, id)]_vars

\* C3: in every state, completed_at is set exactly when the status is
\* completed, failed or timeout, in the stored record and in the in-memory
\* Conversation alike.
C3_CompletedAtIffTerminal ==
    /\ \A id \in Created :
          store[id] # NoItem
          => (HasAttr(store, id, "completed_at") <=> StoredStatus(store, id) \in Terminal)
    /\ obj # ZeroConversation
          => (obj.CompletedAt # <<>> <=> obj.Status \in Terminal)

\* C4: UpdateStatus called with the terminal status the conversation already
\* has leaves completed_at as it was, in the in-memory Conversation and in
\* the stored record.
C4_CompletedAtWrittenOnce ==
    [][\A s \in Terminal :
          /\ (obj.Status = s /\ ObjUpdateStatus(s))
                => obj'.CompletedAt = obj.CompletedAt
          /\ \A id \in ConvIDs :
                (StoredStatus(store, id) = s /\ ClientUpdateStatus(id, s))
                => UnmarshalMap(store'[id]).CompletedAt = UnmarshalMap(store[id]).CompletedAt]_vars

\* C5: the stored last_heartbeat of a conversation the dispatcher created
\* never decreases.
C5_HeartbeatMonotonic ==
    [][\A id \in Created :
          (HasAttr(store, id, "last_heartbeat") /\ HasAttr(store', id, "last_heartbeat"))
          => store'[id]["last_heartbeat"] >= store[id]["last_heartbeat"]]_vars

\* C6: a mention whose first Save failed is answered with an error, and
\* nothing was posted and no execution started for it; every started
\* execution is for a conversation id that was saved before.
C6_FailClosed ==
    /\ \A r \in Reqs :
          req[r].err = "save conversation"
          => /\ req[r].pc = "done"
             /\ req[r].status = 500
             /\ EffectsOf(r) = {}
    /\ \A e \in execs :
          \E s \in saves : s.id = e.input.conversationId /\ s.step = "save"

\* A mention whose first Save failed has been answered.
C6_Witness ==
    \E r \in Reqs : req[r].pc = "done" /\ req[r].err = "save conversation"

\* C7: a request whose signature ValidateSlackRequest rejected is answered
\* with a 4xx status, and no record was saved, no message posted and no
\* execution started for it.
C7_RejectedHasNoEffect ==
    \A r \in Reqs :
        (req[r].checked /\ ~req[r].valid)
        => /\ req[r].pc = "done"
           /\ req[r].status \in 400..499
           /\ req[r].conv = ZeroConversation
           /\ EffectsOf(r) = {}

\* A request was rejected by the validator.
C7_Witness ==
    \E r \in Reqs : req[r].checked /\ ~req[r].valid /\ req[r].pc = "done"

Abs(n) == IF n < 0 THEN 0 - n ELSE n

\* A decimal integer: an optional sign and at least one digit.
IsDecimal(s) ==
    LET digits == IF s # <<>> /\ Head(s) \in {"+", "-"} THEN Tail(s) ELSE s
    IN  digits # <<>> /\ \A i \in 1..Len(digits) : digits[i] \in Digits

\* The signature of the documented scheme:
\* "v0=" + hex(HMAC-SHA256(secret, "v0:" + timestamp + ":" + body)).
DocumentedSig(secret, timestamp, body) ==
    <<"v", "0", "=">> \o HmacHex(secret, <<"v", "0", ":">> \o timestamp \o <<":">> \o body)

\* The timestamp is a number at most MaxAge seconds from the current time.
InWindow(timestamp, unixNow) ==
    IsDecimal(timestamp) /\ Abs(unixNow - ParseInt(timestamp).val) <= MaxAge

\* C8: a request whose timestamp is more than 300 seconds from the current
\* time, older or in the future, is rejected, whatever its signature.
C8_OutsideWindowRejected ==
    (call.done /\ IsDecimal(call.timestamp) /\ ~InWindow(call.timestamp, call.unixNow))
    => ~call.result

\* C9: with a timestamp inside the freshness window, the signature of the
\* documented scheme is accepted and every other signature is rejected.
C9_SignatureDecides ==
    (call.done /\ InWindow(call.timestamp, call.unixNow))
    => (call.result
        <=> call.signature = DocumentedSig(call.signingKey, call.timestamp, call.body))

\* A call at the old edge of the window with the documented signature, done.
C9_Witness ==
    /\ call.done
    /\ IsDecimal(call.timestamp)
    /\ call.unixNow - ParseInt(call.timestamp).val = MaxAge
    /\ call.signature = DocumentedSig(call.signingKey, call.timestamp, call.body)

\* C10 as stated: a non-numeric or empty timestamp, an empty signature or an
\* empty body makes ValidateSlackRequest return false.
C10_MalformedRejected ==
    (call.done /\ (~IsDecimal(call.timestamp) \/ call.signature = <<>> \/ call.body = <<>>))
    => ~call.result

\* C10 amended: a non-numeric or empty timestamp, or an empty signature,
\* makes ValidateSlackRequest return false.
C10_MalformedTimestampOrSignatureRejected ==
    (call.done /\ (~IsDecimal(call.timestamp) \/ call.signature = <<>>))
    => ~call.result

\* A call whose timestamp is no number, with the signature computed over
\* that very timestamp, done.
C10_Witness ==
    /\ call.done
    /\ ~IsDecimal(call.timestamp)
    /\ call.signature = DocumentedSig(call.signingKey, call.timestamp, call.body)

\* C11: while every store call of SaveMessage has succeeded, after k calls
\* for a conversation the stored indexes are exactly 0..k-1 and
\* GetMessageHistory returns the k messages in the order of the calls.
C11_IndexesContiguousInCallOrder ==
    ~faults
    => \A id \in DOMAIN hist :
          /\ DOMAIN hist[id] = 0..(Len(appended[id]) - 1)
          /\ GetMessageHistory(hist, id) = appended[id]

\* C12: every SaveMessage call that returns nil adds exactly one message to
\* the stored history and leaves every message stored before as it was,
\* also when the read of the history inside the call failed.
C12_HistoryAppendOnly ==
    [][\A id \in DOMAIN hist :
          Len(appended'[id]) > Len(appended[id])
          => /\ Cardinality(DOMAIN hist'[id]) = Cardinality(DOMAIN hist[id]) + 1
             /\ \A i \in DOMAIN hist[id] :
                   i \in DOMAIN hist'[id] /\ hist'[id][i] = hist[id][i]]_vars

\* C13: a Save of a record whose conversation_id the dispatcher has saved
\* before does not succeed, and the stored record stays as it was.
C13_SaveOfExistingIdFails ==
    [][\A s \in saves' \ saves :
          s.id \notin Created /\ store[s.id] = NoItem]_vars

\* C14: when handleAppMention returns nil after the execution was started,
\* the stored record carries the ARN StartConversation returned and has
\* status pending.
C14_SuccessMeansArnStored ==
    [][\A r \in DOMAIN req :
          (req[r].pc = "resave" /\ req'[r].pc = "done" /\ req'[r].status = 200)
          => LET id == req[r].conv.ConversationID
             IN  /\ Attr(store'[id], "execution_arn", <<>>) = ExecutionArnOf(id)
                 /\ StoredStatus(store', id) = StatusPending]_vars

\* The most recent conversation stored for the channel is pending or active
\* and an execution was started for it.
InFlightOn(table, started, channel) ==
    \E e \in started :
        LET id == e.input.conversationId
        IN  /\ e.input.channelId = channel
            /\ table[id] # NoItem
            /\ StoredStatus(table, id) \in {StatusPending, StatusActive}
            /\ \A other \in DOMAIN table :
                  (table[other] # NoItem
                   /\ Attr(table[other], "channel_id", "") = channel)
                  => Attr(table[other], "created_at", ZeroTime)
                         <= Attr(table[id], "created_at", ZeroTime)

\* C15: a mention handled after the earlier ones have been answered, on a
\* channel whose most recent conversation is pending or active with its
\* execution started, has no conversation record created for it and no
\* execution started for it.
C15_NoSecondInFlightConversation ==
    [][/\ \A s \in saves' \ saves :
             s.step = "save" => ~InFlightOn(store, execs, store'[s.id]["channel_id"])
       /\ \A e \in execs' \ execs :
             \A first \in execs :
                 first.input.channelId = e.input.channelId
                 => StoredStatus(store, first.input.conversationId)
                        \notin {StatusPending, StatusActive}]_vars

\* C16: no two executions are started for the same conversation_id.
C16_OneExecutionPerConversation ==
    \A e1 \in execs, e2 \in execs :
        e1.input.conversationId = e2.input.conversationId => e1 = e2

\* Two executions have been started, the second for a mention delivered
\* after the first was handled.
C16_Witness ==
    \E e1 \in execs, e2 \in execs : e1.req # e2.req

\* An execution was started for the conversation.
Started(id) == \E e \in execs : e.input.conversationId = id

\* C17: every conversation for which an execution was started eventually
\* has a terminal stored status.
C17_StartedEventuallyTerminal ==
    \A id \in ConvIDs : Started(id) ~> (StoredStatus(store, id) \in Terminal)

\* C18: the worker that has loaded its conversation goes on only with the
\* stored status set to active.
C18_ActiveBeforeFirstTurn ==
    [][\A id \in DOMAIN worker :
          (worker[id].pc = "post" /\ worker'[id].pc # "post")
          => StoredStatus(store, id) = StatusActive]_vars

\* C19: when the worker has failed to load its conversation, the stored
\* status is failed and the stored error is not empty.
C19_LoadFailureRecorded ==
    \A id \in DOMAIN worker :
        (worker[id].pc = "fatal" /\ worker[id].err = "Failed to get conversation")
        => /\ StoredStatus(store, id) = StatusFailed
           /\ Attr(store[id], "error", "") # ""

\* C20: a running worker whose stored last heartbeat is older than the
\* inactivity threshold by more than one watchdog interval has its
\* conversation in status timeout.
C20_StaleWorkerTimedOut ==
    \A id \in DOMAIN worker :
        (/\ worker[id].pc \in {"get", "post"}
         /\ HasAttr(store, id, "last_heartbeat")
         /\ now - store[id]["last_heartbeat"]
                > GetInactivityTimeout(InactivityTimeoutMinutes) + WatchdogInterval)
        => StoredStatus(store, id) = StatusTimeout

\* The phrases that end a conversation, in lower case.
ExitPhrases == {"done", "exit"}

ToLower(text) == IF text = "DONE" THEN "done" ELSE text

IsExitPhrase(text) == ToLower(text) \in ExitPhrases

\* C21: a worker that was sent an exit phrase and has ended leaves its
\* conversation with status completed.
C21_ExitPhraseCompletes ==
    \A id \in DOMAIN worker :
        (/\ worker[id].pc = "done"
         /\ \E i \in 1..Len(inbox[id]) : IsExitPhrase(inbox[id][i]))
        => StoredStatus(store, id) = StatusCompleted

EchoedChallenge(respBody) ==
    IF /\ Len(respBody) >= 8
       /\ SubSeq(respBody, 1, 5) = <<"{", "\"", "challenge", "\"", ":">>
       /\ respBody[Len(respBody)] = "}"
    THEN DecodeJSONString(SubSeq(respBody, 6, Len(respBody) - 1))
    ELSE [ok |-> FALSE, val |-> <<>>]

\* C23: an accepted url_verification event is answered 200 with its
\* challenge, unchanged, as the challenge of the response, and no record
\* was saved, no message posted and no execution started for it.
C23_ChallengeEchoed ==
    \A r \in DOMAIN req :
        (req[r].pc = "done" /\ Len(req[r].event) = 3
         /\ req[r].event[1] = "url_verification")
        => /\ req[r].status = 200
           /\ EchoedChallenge(req[r].respBody) = [ok |-> TRUE, val |-> req[r].event[3]]
           /\ req[r].conv = ZeroConversation
           /\ EffectsOf(r) = {}

\* The parsed event of request r is neither a url_verification nor a mention.
OtherEvent(r) ==
    /\ Len(req[r].event) = 3
    /\ req[r].event[1] # "url_verification"
    /\ ~(req[r].event[1] = "event_callback" /\ req[r].event[2] = "app_mention")

\* C24: an accepted event that is neither a url_verification nor an
\* app_mention is answered 200 with no error, and no record is saved, no
\* message posted and no execution started for it, at any moment.
C24_OtherEventsIgnored ==
    \A r \in DOMAIN req :
        OtherEvent(r)
        => /\ req[r].pc = "done"
           /\ req[r].status = 200
           /\ req[r].err = ""
           /\ req[r].conv = ZeroConversation
           /\ EffectsOf(r) = {}

C24_Witness ==
    \E r \in DOMAIN req :
        /\ OtherEvent(r)
        /\ req[r].event[1] = "event_callback"
        /\ req[r].status = 200

\* The latest created_at among the conversations of a channel.
LatestCreatedAt(table, channelID) ==
    CHOOSE t \in {i["created_at"] : i \in ChannelItems(table, channelID)} :
        \A i \in ChannelItems(table, channelID) : i["created_at"] <= t

\* C25: GetByChannelID on a channel with two or more stored conversations
\* returns the one of them with the latest created_at.
C25_LatestOfChannel ==
    [][\A channelID \in Channels :
          (FindByChannel(channelID) /\ Cardinality(ChannelItems(store, channelID)) >= 2)
          => /\ lookup'.ok
             /\ lookup'.conv.ChannelID = channelID
             /\ lookup'.conv.CreatedAt = LatestCreatedAt(store, channelID)]_vars

\* C26: GetByID of a conversation that was made by NewConversation and saved
\* returns it with status pending, no completed_at, and the channel, user
\* and command it was made with.
C26_CreateThenGet ==
    [][\A id \in DOMAIN store :
          (ReadConversation(id) /\ \E k \in DOMAIN made : made[k].id = id)
          => /\ lookup'.ok
             /\ lookup'.conv.Status = StatusPending
             /\ lookup'.conv.CompletedAt = <<>>
             /\ \A k \in DOMAIN made :
                    made[k].id = id
                    => /\ lookup'.conv.ConversationID = made[k].id
                       /\ lookup'.conv.ChannelID = made[k].channelID
                       /\ lookup'.conv.UserID = made[k].userID
                       /\ lookup'.conv.InitialCommand = made[k].initialCommand]_vars

C26_Witness ==
    /\ lookup.op = "GetByID"
    /\ lookup.ok
    /\ \E k \in DOMAIN made : made[k].id = lookup.id /\ made[k].channelID = "C2"
                                /\ made[k].userID = "U2"

\* The attributes of a stored conversation that are fixed at its creation.
CreationAttributes(item) ==
    <<Attr(item, "conversation_id", 0), Attr(item, "channel_id", ""),
      Attr(item, "user_id", ""), Attr(item, "initial_command", ""),
      Attr(item, "created_at", ZeroTime)>>

\* C27: no step changes the conversation_id, channel_id, user_id,
\* initial_command or created_at of a conversation the dispatcher has
\* saved: not UpdateStatus, not UpdateHeartbeat, not the second Save.
C27_CreationAttributesFixed ==
    [][\A id \in Created :
          CreationAttributes(store'[id]) = CreationAttributes(store[id])]_vars

C27_Witness ==
    \E id \in Created :
        /\ \E s \in saves : s.id = id /\ s.step = "resave"
        /\ StoredStatus(store, id) = StatusCompleted
        /\ store[id]["last_heartbeat"] # store[id]["created_at"]
        /\ store[id]["channel_id"] = "C1"

\* The acknowledgment of request r was posted.
Acknowledged(r) == \E p \in posts : p.req = r /\ p.kind = "ack"

\* C28: when the acknowledgment of a mention cannot be posted the dispatch
\* goes on to start the execution with no error set, and a dispatch whose
\* execution was started answers 200 with no error whether or not the
\* acknowledgment was posted.
C28_AckFailureNotFatal ==
    [][\A r \in DOMAIN req :
          /\ (req[r].pc = "ack" /\ req'[r] # req[r] /\ posts' = posts)
             => (req'[r].pc = "start" /\ req'[r].err = "" /\ req'[r].status = 0)
          /\ (req'[r].pc = "done" /\ ~Acknowledged(r)' /\ \E e \in execs' : e.req = r)
             => (req'[r].status = 200 /\ req'[r].err = "")]_vars

C28_Witness ==
    \E r \in DOMAIN req :
        /\ req[r].pc = "done"
        /\ req[r].status = 200
        /\ ~Acknowledged(r)
        /\ \E e \in execs : e.req = r

\* C29: a CreateConversationChannel call whose channel creation fails
\* returns an error and no channel id and invites nobody; one whose
\* creation succeeds invites the user and returns the id of the channel
\* with no error, whether or not the invitation succeeds.
C29_CreateChannelResult ==
    \A k \in DOMAIN channels :
        channels[k].op = "create"
        => IF channels[k].slackOK
           THEN /\ channels[k].result = channels[k].channel
                /\ channels[k].err = ""
                /\ Len(channels[k].invites) = 1
                /\ channels[k].invites[1].channel = channels[k].channel
                /\ channels[k].invites[1].user = channels[k].user
           ELSE /\ channels[k].result = ""
                /\ channels[k].err # ""
                /\ channels[k].invites = <<>>

C29_Witness ==
    /\ \E k \in DOMAIN channels :
          /\ channels[k].op = "create" /\ channels[k].slackOK
          /\ ~channels[k].invites[1].ok
          /\ channels[k].result = "C987654"
    /\ \E k \in DOMAIN channels :
          channels[k].op = "create" /\ ~channels[k].slackOK /\ channels[k].err # ""

\* C30: every ArchiveConversationChannel call returns no error, whatever
\* the channel id and whether or not Slack archived the channel.
C30_ArchiveNeverFails ==
    \A k \in DOMAIN channels :
        channels[k].op = "archive" => channels[k].err = ""

C30_Witness ==
    /\ \E k \in DOMAIN channels :
          channels[k].op = "archive" /\ ~channels[k].slackOK /\ channels[k].err = ""
    /\ \E k \in DOMAIN channels :
          channels[k].op = "archive" /\ channels[k].channel = ""

\* C31: no step other than a status update by a caller of the repository
\* takes the stored status of a conversation the dispatcher has saved from
\* active back to pending:
\* not the Save of the dispatcher after the execution was started.
C31_NoActiveToPending ==
    [][\A id \in Created :
          (StoredStatus(store, id) = StatusActive /\ calls' = calls)
          => StoredStatus(store', id) # StatusPending]_vars

\* C32: every record of the conversations table has the attributes a
\* conversation is created with: UpdateStatus and UpdateHeartbeat on an id
\* the table has no record of leave it without one.
C32_UpdatesNeverCreate ==
    \A id \in DOMAIN store :
        store[id] # NoItem
        => /\ HasAttr(store, id, "channel_id")
           /\ HasAttr(store, id, "user_id")
           /\ HasAttr(store, id, "created_at")
           /\ HasAttr(store, id, "ttl")

\* The parsed event of request r is an app_mention.
IsMention(r) ==
    /\ Len(req[r].event) = 3
    /\ req[r].event[1] = "event_callback"
    /\ req[r].event[2] = "app_mention"

\* An execution was started for the conversation of request r, which the
\* first Save of the request had stored.
StartedFor(r) ==
    /\ \E e \in execs : e.req = r /\ e.input.conversationId = req[r].conv.ConversationID
    /\ \E s \in saves : s.req = r /\ s.step = "save"
                          /\ s.id = req[r].conv.ConversationID

\* C33: an answered app_mention got 200 exactly when an execution was started
\* for its newly saved conversation, and otherwise 500 with the error of the
\* dispatch; no execution exists for a request whose dispatch failed.
C33_OkIffExecutionStarted ==
    \A r \in DOMAIN req :
        /\ (\E e \in execs : e.req = r) => (IsMention(r) /\ StartedFor(r))
        /\ (req[r].pc = "done" /\ IsMention(r))
           => /\ req[r].status \in {200, 500}
              /\ req[r].status = 200 <=> StartedFor(r)
              /\ req[r].status = 500 <=> req[r].err # ""

C33_Witness ==
    /\ \E r \in DOMAIN req :
          /\ req[r].pc = "done" /\ IsMention(r)
          /\ req[r].status = 200 /\ StartedFor(r)
          /\ ~\E s \in saves : s.req = r /\ s.step = "resave"
    /\ \E r \in DOMAIN req :
          /\ req[r].pc = "done" /\ IsMention(r)
          /\ req[r].status = 500 /\ req[r].err = "start step function"
          /\ ~\E e \in execs : e.req = r

\* What UpdateHeartbeat is to leave alone in a record, and what
\* UpdateStatus is.
HeartbeatFrame(item) ==
    <<Attr(item, "status", ""), "completed_at" \in DOMAIN item,
      Attr(item, "completed_at", ZeroTime), Attr(item, "error", ""),
      Attr(item, "execution_arn", <<>>)>>
StatusFrame(item) ==
    <<"last_heartbeat" \in DOMAIN item,
      Attr(item, "last_heartbeat", ZeroTime), Attr(item, "error", ""),
      Attr(item, "execution_arn", <<>>)>>

\* C34: an UpdateHeartbeat call leaves status, completed_at, error and
\* execution_arn of every record as they were, and an UpdateStatus call
\* leaves last_heartbeat, error and execution_arn as they were.
C34_UpdateFrames ==
    [][\A id \in DOMAIN store :
          /\ (\E timestamp \in Times : ClientUpdateHeartbeat(id, timestamp))
             => \A other \in DOMAIN store :
                    HeartbeatFrame(store'[other]) = HeartbeatFrame(store[other])
          /\ (\E status \in Statuses : ClientUpdateStatus(id, status))
             => \A other \in DOMAIN store :
                    StatusFrame(store'[other]) = StatusFrame(store[other])]_vars

\* A conversation stored with its ARN has had both calls, UpdateStatus with
\* a terminal status and UpdateHeartbeat.
C34_Witness ==
    \E id \in Created :
        /\ calls = MaxCalls
        /\ StoredStatus(store, id) = StatusCompleted
        /\ HasAttr(store, id, "completed_at")
        /\ store[id]["execution_arn"] # <<>>
        /\ store[id]["last_heartbeat"] # store[id]["created_at"]

\* The arguments other than those of the call that the signature of the
\* call is accepted with.
AcceptedElsewhere ==
    {c \in CallBodies \X CallTimestamps \X CallKeys :
        /\ c # <<call.body, call.timestamp, call.signingKey>>
        /\ ValidateSlackRequest(c[1], c[2], call.signature, c[3], call.unixNow)}

C36_InactivityTimeoutPositive ==
    config.pc = "read"
    => /\ config.timeout > 0
       /\ config.timeout = config.cfg.InactivityTimeoutMinutes * 60 * TicksPerSecond

====
